---- MODULE Spec2Model ----
(***************************************************************************)
(* The book-instance controller (controllers/bookinstanceController.js)    *)
(* as a state machine.  Storage (the BookInstance collection) is shared;   *)
(* every request runs its handler's synchronous part in one step and each  *)
(* storage callback in a later step, so requests interleave at exactly the *)
(* points where the single-threaded event loop lets them.  Each request    *)
(* keeps the ordered list of what it called: storage operations, next(),   *)
(* res.render, res.redirect, and uncaught exceptions.                      *)
(***************************************************************************)
EXTENDS Integers, Sequences, FiniteSets

\* Identities the storage layer may mint (ObjectIds, never reused).
MaxId == 2

VARIABLES bookinstances,  \* the BookInstance collection: _id -> stored fields
          nextId,         \* the next identity `new BookInstance` mints
          reqs            \* per request slot: the request being handled

vars == <<bookinstances, nextId, reqs>>

Ids == 1..MaxId

------------------------------------------------------------------------------
(* Values *)

\* JS undefined / null for a date-valued field, and null for a populated path.
Undefined == "<undefined>"
Null == "<null>"
NullRef == <<"<null>">>

\* The Book collection as Book.find({}, 'title').sort(title) returns it.
BookList == << <<"b">> >>
Books == {BookList[i] : i \in DOMAIN BookList}

\* Form inputs.  book: empty, an existing book, a well-formed id of no book.
BookInputs == {<<>>, <<"b">>, <<"x">>}
ImprintInputs == {<<>>, <<" ", "<">>}
StatusInputs == {<<"A">>}
DueBackInputs == {Undefined, "", "2021-03-04", "tomorrow"}

AllBodies == [book : BookInputs, imprint : ImprintInputs,
              status : StatusInputs, due_back : DueBackInputs]

\* The bodies used when two requests run concurrently.
ConcBodies == {b \in AllBodies : b.imprint = <<" ", "<">> /\ b.due_back = Undefined}

EmptyBody == [book |-> <<>>, imprint |-> <<>>, status |-> <<>>, due_back |-> Undefined]
NoDoc == [_id |-> 0, book |-> <<>>, imprint |-> <<>>, status |-> <<>>, due_back |-> Undefined]

------------------------------------------------------------------------------
(* express-validator / validator.js *)

RECURSIVE LTrim(_)
LTrim(s) == IF s # <<>> /\ Head(s) = " " THEN LTrim(Tail(s)) ELSE s

RECURSIVE RTrim(_)
RTrim(s) == IF s # <<>> /\ s[Len(s)] = " " THEN RTrim(SubSeq(s, 1, Len(s) - 1)) ELSE s

Trim(s) == RTrim(LTrim(s))

EscapeChar(c) == CASE c = "<" -> "&lt;"
                   [] c = ">" -> "&gt;"
                   [] c = "&" -> "&amp;"
                   [] OTHER -> c

Escape(s) == [i \in DOMAIN s |-> EscapeChar(s[i])]

IsISO8601(s) == s \in {"2021-03-04"}

\* optional({checkFalsy: true}): the chain is skipped for a falsy value.
IsFalsy(v) == v \in {Undefined, ""}

\* toDate: a Date when Date.parse accepts the string, null otherwise;
\* a field that is not a string is left alone.
ToDate(v) == CASE v = Undefined -> Undefined
               [] v = "2021-03-04" -> "Date(2021-03-04)"
               [] OTHER -> Null

\* The three validation chains, in order; the messages they leave.  Each
\* validator reads the submitted value (isLength precedes trim in the chain).

\* The book chain with its isLength check left out.
ValidateBookUnchecked(body) == <<>>

ValidateBook(body) == IF Len(body.book) >= 1 THEN <<>> ELSE <<"Book must be specified">>

ValidateImprint(body) == IF Len(body.imprint) >= 1 THEN <<>> ELSE <<"Imprint must be specified">>

\* The due_back chain without optional(): a missing date is an invalid one.
ValidateDueBackRequired(body) ==
    IF IsISO8601(body.due_back) THEN <<>> ELSE <<"Invalid date">>

ValidateDueBack(body) ==
    IF IsFalsy(body.due_back) \/ IsISO8601(body.due_back) THEN <<>> ELSE <<"Invalid date">>

ValidationResult(body) == ValidateBook(body) \o ValidateImprint(body) \o ValidateDueBack(body)

\* The four sanitizers applied to req.body.
SanitizeBody(body) == [book |-> Escape(Trim(body.book)),
                       imprint |-> Escape(Trim(body.imprint)),
                       status |-> Escape(Trim(body.status)),
                       due_back |-> ToDate(body.due_back)]

------------------------------------------------------------------------------
(* Storage *)

Fields(doc) == [book |-> doc.book, imprint |-> doc.imprint,
                status |-> doc.status, due_back |-> doc.due_back]

\* findById(id): the stored document, or NoDoc (null) when there is none.
FindById(id) == IF id \in DOMAIN bookinstances
                THEN [_id |-> id, book |-> bookinstances[id].book,
                      imprint |-> bookinstances[id].imprint,
                      status |-> bookinstances[id].status,
                      due_back |-> bookinstances[id].due_back]
                ELSE NoDoc

\* .populate('book'): the path becomes the book, or null when no book has that id.
Populate(doc) == IF doc = NoDoc THEN NoDoc
                 ELSE [doc EXCEPT !.book = IF doc.book \in Books THEN doc.book ELSE NullRef]

FindAll == {Populate(FindById(id)) : id \in DOMAIN bookinstances}

\* The url virtuals of the two models.
BookInstanceUrl(id) == <<"/catalog/bookinstance/", id>>
BookUrl(b) == <<"/catalog/book/", b>>

------------------------------------------------------------------------------
(* Requests *)

Storage(op, id) == [kind |-> "storage", what |-> op, arg |-> id]
CallNext(err) == [kind |-> "next", what |-> err, arg |-> 0]
Render(view, locals) == [kind |-> "render", what |-> view, arg |-> locals]
Redirect(url) == [kind |-> "redirect", what |-> "redirect", arg |-> url]
Throw(name) == [kind |-> "throw", what |-> name, arg |-> 0]
\* A storage callback being invoked: with an error, with null, or with a result.
Callback(op, outcome) == [kind |-> "callback", what |-> outcome, arg |-> op]

Outcome(err, doc) == IF err THEN "fault" ELSE IF doc = NoDoc THEN "null" ELSE "ok"

UnsetDoc == [NoDoc EXCEPT !._id = -1]
UnsetList == << <<"<undefined>">> >>
NoResults == [bookinstance |-> UnsetDoc, book_list |-> UnsetList]

Idle == [handler |-> "none", pc |-> "idle", id |-> 0, body |-> EmptyBody,
         errors |-> <<>>, doc |-> NoDoc, results |-> NoResults,
         pending |-> {}, completed |-> 0, called |-> FALSE, calls |-> <<>>]

Reqs == DOMAIN reqs

Bodies == IF Cardinality(Reqs) = 1 THEN AllBodies ELSE ConcBodies

CanStart(r) == reqs[r].pc = "idle"

Begin(r, h, pc, id, call) ==
    reqs' = [reqs EXCEPT ![r] = [Idle EXCEPT !.handler = h, !.pc = pc, !.id = id,
                                              !.calls = <<call>>]]

At(r, h, pc) == reqs[r].handler = h /\ reqs[r].pc = pc

\* A callback that ends the request: it is invoked, and makes its calls.
Finish(r, cb, evs) ==
    reqs' = [reqs EXCEPT ![r].pc = "done", ![r].calls = (@ \o <<cb>>) \o evs]

\* The null check left out.
IsNullUnchecked(doc) == FALSE

\* `bookinstance === null`
IsNull(doc) == doc = NoDoc

------------------------------------------------------------------------------
(* bookinstance_list *)

bookinstance_list(r) ==
    /\ CanStart(r)
    /\ Begin(r, "bookinstance_list", "exec", 0, Storage("BookInstance.find", 0))
    /\ UNCHANGED <<bookinstances, nextId>>

\* The exec callback.  The handler is function (req, res): `next` is not
\* bound, so `return next(err)` raises a ReferenceError.
bookinstance_list_exec(r) ==
    /\ At(r, "bookinstance_list", "exec")
    /\ \E err \in BOOLEAN :
         Finish(r, Callback("BookInstance.find", IF err THEN "fault" ELSE "ok"),
                IF err THEN <<Throw("ReferenceError")>>
                ELSE <<Render("bookinstance_list",
                              [title |-> "Book Instance List",
                               bookinstance_list |-> FindAll])>>)
    /\ UNCHANGED <<bookinstances, nextId>>

(* bookinstance_detail *)

bookinstance_detail(r) ==
    /\ CanStart(r)
    /\ \E id \in Ids :
         Begin(r, "bookinstance_detail", "exec", id, Storage("BookInstance.findById", id))
    /\ UNCHANGED <<bookinstances, nextId>>

bookinstance_detail_exec(r) ==
    /\ At(r, "bookinstance_detail", "exec")
    /\ \E err \in BOOLEAN :
         LET bookinstance == Populate(FindById(reqs[r].id)) IN
         Finish(r, Callback("BookInstance.findById", Outcome(err, bookinstance)),
                IF err THEN <<CallNext("fault")>>
                ELSE IF IsNull(bookinstance) THEN <<CallNext("404")>>
                ELSE <<Render("bookinstance_detail",
                              [title |-> "Book", bookinstance |-> bookinstance])>>)
    /\ UNCHANGED <<bookinstances, nextId>>

(* bookinstance_create_get *)

bookinstance_create_get(r) ==
    /\ CanStart(r)
    /\ Begin(r, "bookinstance_create_get", "exec", 0, Storage("Book.find", 0))
    /\ UNCHANGED <<bookinstances, nextId>>

bookinstance_create_get_exec(r) ==
    /\ At(r, "bookinstance_create_get", "exec")
    /\ \E err \in BOOLEAN :
         Finish(r, Callback("Book.find", IF err THEN "fault" ELSE "ok"),
                IF err THEN <<CallNext("fault")>>
                ELSE <<Render("bookinstance_form",
                              [title |-> "Create BookInstance", book_list |-> BookList])>>)
    /\ UNCHANGED <<bookinstances, nextId>>

(* bookinstance_create_post *)

\* The response to a failed validation: the form again, with the messages.
FormWithErrors(r) ==
    Render("bookinstance_form",
           [title |-> "Create BookInstance", book_list |-> BookList,
            errors |-> reqs[r].errors, bookinstance |-> reqs[r].doc])

\* Validators, sanitizers, `new BookInstance` (which mints the _id), and the
\* branch on the validation result.
bookinstance_create_post(r) ==
    /\ CanStart(r)
    /\ nextId <= MaxId
    /\ \E body \in Bodies :
         LET errors == ValidationResult(body)
             clean == SanitizeBody(body)
             bookinstance == [_id |-> nextId, book |-> clean.book, imprint |-> clean.imprint,
                              status |-> clean.status, due_back |-> clean.due_back]
         IN reqs' = [reqs EXCEPT ![r] =
                [Idle EXCEPT !.handler = "bookinstance_create_post",
                             !.pc = IF errors # <<>> THEN "books" ELSE "save",
                             !.body = body, !.errors = errors, !.doc = bookinstance,
                             !.calls = IF errors # <<>> THEN <<Storage("Book.find", 0)>>
                                       ELSE <<Storage("save", nextId)>>]]
    /\ nextId' = nextId + 1
    /\ UNCHANGED bookinstances

bookinstance_create_post_books(r) ==
    /\ At(r, "bookinstance_create_post", "books")
    /\ \E err \in BOOLEAN :
         Finish(r, Callback("Book.find", IF err THEN "fault" ELSE "ok"),
                IF err THEN <<CallNext("fault")>> ELSE <<FormWithErrors(r)>>)
    /\ UNCHANGED <<bookinstances, nextId>>

\* A save that inserts nothing.
SavedNothing(doc) == bookinstances

\* The collection after doc.save() has inserted the document.
Saved(doc) == [k \in DOMAIN bookinstances \cup {doc._id} |->
                 IF k = doc._id THEN Fields(doc) ELSE bookinstances[k]]

\* The save callback without its `return`: the redirect follows next(err).
bookinstance_create_post_save_no_return(r) ==
    /\ At(r, "bookinstance_create_post", "save")
    /\ \E err \in BOOLEAN :
         IF err
         THEN /\ Finish(r, Callback("save", "fault"),
                        <<CallNext("fault"), Redirect(BookInstanceUrl(reqs[r].doc._id))>>)
              /\ UNCHANGED bookinstances
         ELSE /\ bookinstances' = Saved(reqs[r].doc)
              /\ Finish(r, Callback("save", "ok"),
                        <<Redirect(BookInstanceUrl(reqs[r].doc._id))>>)
    /\ UNCHANGED nextId

bookinstance_create_post_save(r) ==
    /\ At(r, "bookinstance_create_post", "save")
    /\ \E err \in BOOLEAN :
         IF err
         THEN /\ Finish(r, Callback("save", "fault"), <<CallNext("fault")>>)
              /\ UNCHANGED bookinstances
         ELSE /\ bookinstances' = Saved(reqs[r].doc)
              /\ Finish(r, Callback("save", "ok"),
                        <<Redirect(BookInstanceUrl(reqs[r].doc._id))>>)
    /\ UNCHANGED nextId

(* bookinstance_delete_get *)

bookinstance_delete_get(r) ==
    /\ CanStart(r)
    /\ \E id \in Ids :
         Begin(r, "bookinstance_delete_get", "exec", id, Storage("BookInstance.findById", id))
    /\ UNCHANGED <<bookinstances, nextId>>

\* The null branch redirects and does not return: the render follows.
bookinstance_delete_get_exec(r) ==
    /\ At(r, "bookinstance_delete_get", "exec")
    /\ \E err \in BOOLEAN :
         LET bookInstance == Populate(FindById(reqs[r].id))
             render == Render("bookinstance_delete",
                              [title |-> "Delete Book Copy", bookinstance |-> bookInstance])
         IN Finish(r, Callback("BookInstance.findById", Outcome(err, bookInstance)),
                   IF err THEN <<CallNext("fault")>>
                   ELSE IF IsNull(bookInstance)
                        THEN <<Redirect(<<"/catalog/books", 0>>), render>>
                        ELSE <<render>>)
    /\ UNCHANGED <<bookinstances, nextId>>

(* bookinstance_delete_post *)

bookinstance_delete_post(r) ==
    /\ CanStart(r)
    /\ \E id \in Ids :
         Begin(r, "bookinstance_delete_post", "find", id, Storage("BookInstance.findById", id))
    /\ UNCHANGED <<bookinstances, nextId>>

\* The findById callback: no null check, so `bookInstance.remove` on null
\* raises a TypeError.
bookinstance_delete_post_find(r) ==
    /\ At(r, "bookinstance_delete_post", "find")
    /\ \E err \in BOOLEAN :
         LET bookInstance == Populate(FindById(reqs[r].id))
             cb == Callback("BookInstance.findById", Outcome(err, bookInstance))
         IN IF err THEN Finish(r, cb, <<CallNext("fault")>>)
            ELSE IF IsNull(bookInstance) THEN Finish(r, cb, <<Throw("TypeError")>>)
            ELSE reqs' = [reqs EXCEPT
                            ![r].pc = "remove", ![r].doc = bookInstance,
                            ![r].calls = @ \o <<cb, Storage("remove", bookInstance._id)>>]
    /\ UNCHANGED <<bookinstances, nextId>>

\* The collection after doc.remove().
Removed(doc) == [k \in DOMAIN bookinstances \ {doc._id} |-> bookinstances[k]]

\* deleteBookInstance: `bookInstance.book.url` raises a TypeError when the
\* populated book is null.
bookinstance_delete_post_remove(r) ==
    /\ At(r, "bookinstance_delete_post", "remove")
    /\ \E err \in BOOLEAN :
         LET bookInstance == reqs[r].doc IN
         IF err
         THEN /\ Finish(r, Callback("remove", "fault"), <<CallNext("fault")>>)
              /\ UNCHANGED bookinstances
         ELSE /\ bookinstances' = Removed(bookInstance)
              /\ Finish(r, Callback("remove", "ok"),
                        IF bookInstance.book = NullRef THEN <<Throw("TypeError")>>
                        ELSE <<Redirect(BookUrl(bookInstance.book))>>)
    /\ UNCHANGED nextId

(* bookinstance_update_get *)

ParallelTasks == {"bookinstance", "book_list"}

\* A final callback that does not wait for the second task.
AnyCompleted(completed) == completed >= 1

\* async.parallel calls the final callback without an error once every task
\* has completed.
AllCompleted(completed) == completed = Cardinality(ParallelTasks)

\* The final callback.
UpdateGetFinal(err, results) ==
    IF err THEN <<CallNext("fault")>>
    ELSE IF IsNull(results.bookinstance) THEN <<CallNext("404")>>
    ELSE <<Render("bookinstance_form",
                  [title |-> "Update BookInstance",
                   bookinstance |-> results.bookinstance,
                   book_list |-> results.book_list])>>

\* Both reads are issued before either completes.
bookinstance_update_get(r) ==
    /\ CanStart(r)
    /\ \E id \in Ids :
         reqs' = [reqs EXCEPT ![r] =
            [Idle EXCEPT !.handler = "bookinstance_update_get", !.pc = "parallel", !.id = id,
                         !.pending = ParallelTasks,
                         !.calls = <<Storage("BookInstance.findById", id),
                                     Storage("Book.find", 0)>>]]
    /\ UNCHANGED <<bookinstances, nextId>>

\* A task's callback inside async.parallel: store the result, then either
\* hand the error to the final callback or count the completion; the final
\* callback is wrapped in once().
TaskCallback(r, key, cb, err, result) ==
    LET q == reqs[r]
        results == IF err THEN q.results ELSE [q.results EXCEPT ![key] = result]
        completed == IF err THEN q.completed ELSE q.completed + 1
        fire == ~q.called /\ (err \/ AllCompleted(completed))
    IN reqs' = [reqs EXCEPT ![r].pending = @ \ {key},
                            ![r].results = results,
                            ![r].completed = completed,
                            ![r].called = q.called \/ fire,
                            ![r].calls = (@ \o <<cb>>) \o
                                (IF fire THEN UpdateGetFinal(err, results) ELSE <<>>),
                            ![r].pc = IF q.pending \ {key} = {} THEN "done" ELSE "parallel"]

bookinstance_update_get_bookinstance(r) ==
    /\ At(r, "bookinstance_update_get", "parallel")
    /\ "bookinstance" \in reqs[r].pending
    /\ \E err \in BOOLEAN :
         LET bookinstance == FindById(reqs[r].id) IN
         TaskCallback(r, "bookinstance",
                      Callback("BookInstance.findById", Outcome(err, bookinstance)),
                      err, bookinstance)
    /\ UNCHANGED <<bookinstances, nextId>>

bookinstance_update_get_book_list(r) ==
    /\ At(r, "bookinstance_update_get", "parallel")
    /\ "book_list" \in reqs[r].pending
    /\ \E err \in BOOLEAN :
         TaskCallback(r, "book_list", Callback("Book.find", IF err THEN "fault" ELSE "ok"),
                      err, BookList)
    /\ UNCHANGED <<bookinstances, nextId>>

(* bookinstance_update_post *)

\* The rebuilt document without line 207: the constructor mints its _id.
UpdateDocIdMinted(id) == nextId

\* `_id: req.params.id`: the rebuilt document carries the record's identity.
UpdateDocId(id) == id

bookinstance_update_post(r) ==
    /\ CanStart(r)
    /\ \E id \in Ids, body \in Bodies :
         LET errors == ValidationResult(body)
             clean == SanitizeBody(body)
             bookinstance == [_id |-> UpdateDocId(id), book |-> clean.book,
                              imprint |-> clean.imprint, status |-> clean.status,
                              due_back |-> clean.due_back]
         IN reqs' = [reqs EXCEPT ![r] =
                [Idle EXCEPT !.handler = "bookinstance_update_post",
                             !.pc = IF errors # <<>> THEN "books" ELSE "update",
                             !.id = id, !.body = body, !.errors = errors,
                             !.doc = bookinstance,
                             !.calls = IF errors # <<>> THEN <<Storage("Book.find", 0)>>
                                       ELSE <<Storage("findByIdAndUpdate", id)>>]]
    /\ UNCHANGED <<bookinstances, nextId>>

bookinstance_update_post_books(r) ==
    /\ At(r, "bookinstance_update_post", "books")
    /\ \E err \in BOOLEAN :
         Finish(r, Callback("Book.find", IF err THEN "fault" ELSE "ok"),
                IF err THEN <<CallNext("fault")>> ELSE <<FormWithErrors(r)>>)
    /\ UNCHANGED <<bookinstances, nextId>>

\* The collection after findByIdAndUpdate(id, doc, {}): the record found by id
\* takes every defined path of doc, its _id included; no record, no change.
Updated(id, doc) ==
    IF id \notin DOMAIN bookinstances THEN bookinstances
    ELSE [k \in (DOMAIN bookinstances \ {id}) \cup {doc._id} |->
            IF k = doc._id
            THEN [Fields(doc) EXCEPT !.due_back = IF doc.due_back = Undefined
                                                   THEN bookinstances[id].due_back
                                                   ELSE doc.due_back]
            ELSE bookinstances[k]]

\* The callback receives the record as it was before the update, or null:
\* `updatedBookInstance.url` raises a TypeError on null.
bookinstance_update_post_update(r) ==
    /\ At(r, "bookinstance_update_post", "update")
    /\ \E err \in BOOLEAN :
         LET updatedBookInstance == FindById(reqs[r].id) IN
         IF err
         THEN /\ Finish(r, Callback("findByIdAndUpdate", "fault"), <<CallNext("fault")>>)
              /\ UNCHANGED bookinstances
         ELSE /\ bookinstances' = Updated(reqs[r].id, reqs[r].doc)
              /\ Finish(r, Callback("findByIdAndUpdate", Outcome(FALSE, updatedBookInstance)),
                        IF IsNull(updatedBookInstance) THEN <<Throw("TypeError")>>
                        ELSE <<Redirect(BookInstanceUrl(updatedBookInstance._id))>>)
    /\ UNCHANGED nextId

(* The request is over; the slot takes the next one. *)
RequestEnd(r) ==
    /\ reqs[r].pc = "done"
    /\ reqs' = [reqs EXCEPT ![r] = Idle]
    /\ UNCHANGED <<bookinstances, nextId>>

------------------------------------------------------------------------------
(* Specification *)

Empty == [k \in {} |-> Fields(NoDoc)]

\* An empty collection, and either one request at a time over every form
\* body or two requests in flight.
Init == /\ bookinstances = Empty
        /\ nextId = 1
        /\ reqs \in {[r \in {"r1"} |-> Idle], [r \in {"r1", "r2"} |-> Idle]}

Next == \/ \E r \in Reqs : bookinstance_list(r)
        \/ \E r \in Reqs : bookinstance_list_exec(r)
        \/ \E r \in Reqs : bookinstance_detail(r)
        \/ \E r \in Reqs : bookinstance_detail_exec(r)
        \/ \E r \in Reqs : bookinstance_create_get(r)
        \/ \E r \in Reqs : bookinstance_create_get_exec(r)
        \/ \E r \in Reqs : bookinstance_create_post(r)
        \/ \E r \in Reqs : bookinstance_create_post_books(r)
        \/ \E r \in Reqs : bookinstance_create_post_save(r)
        \/ \E r \in Reqs : bookinstance_delete_get(r)
        \/ \E r \in Reqs : bookinstance_delete_get_exec(r)
        \/ \E r \in Reqs : bookinstance_delete_post(r)
        \/ \E r \in Reqs : bookinstance_delete_post_find(r)
        \/ \E r \in Reqs : bookinstance_delete_post_remove(r)
        \/ \E r \in Reqs : bookinstance_update_get(r)
        \/ \E r \in Reqs : bookinstance_update_get_bookinstance(r)
        \/ \E r \in Reqs : bookinstance_update_get_book_list(r)
        \/ \E r \in Reqs : bookinstance_update_post(r)
        \/ \E r \in Reqs : bookinstance_update_post_books(r)
        \/ \E r \in Reqs : bookinstance_update_post_update(r)
        \/ \E r \in Reqs : RequestEnd(r)

Spec == Init /\ [][Next]_vars

------------------------------------------------------------------------------
(* Reading a request's calls *)

Log(r) == reqs[r].calls

Is(e, kind, what) == e.kind = kind /\ e.what = what

Has(r, kind, what, arg) ==
    \E i \in DOMAIN Log(r) : Is(Log(r)[i], kind, what) /\ Log(r)[i].arg = arg

Done(r) == reqs[r].pc = "done"

Last(s) == s[Len(s)]

IsResponse(e) == e.kind \in {"render", "redirect"}
IsForward(e) == e.kind = "next"
IsOutcome(e) == e.kind \in {"render", "redirect", "next", "throw"}

Responses(r) == SelectSeq(Log(r), IsResponse)
Forwards(r) == SelectSeq(Log(r), IsForward)
Outcomes(r) == SelectSeq(Log(r), IsOutcome)

Faults(r) == {i \in DOMAIN Log(r) : Is(Log(r)[i], "callback", "fault")}
FirstFault(r) == CHOOSE i \in Faults(r) : \A j \in Faults(r) : i <= j

PostHandlers == {"bookinstance_create_post", "bookinstance_update_post"}
PersistOps == {"save", "findByIdAndUpdate"}

NoPersistence(r) ==
    \A i \in DOMAIN Log(r) : ~(Log(r)[i].kind = "storage" /\ Log(r)[i].what \in PersistOps)

\* The form view rendered with a non-empty errors list.
IsErrorForm(e) ==
    /\ Is(e, "render", "bookinstance_form")
    /\ "errors" \in DOMAIN e.arg
    /\ Len(e.arg.errors) >= 1

\* The request took the re-render branch and that branch ran to its end:
\* the form with errors, or the book-list fault forwarded and nothing rendered.
FormOrFault(r) ==
    /\ Len(Log(r)) = 3
    /\ Is(Log(r)[1], "storage", "Book.find")
    /\ \/ Is(Log(r)[2], "callback", "ok") /\ IsErrorForm(Log(r)[3])
       \/ Is(Log(r)[2], "callback", "fault") /\ Is(Log(r)[3], "next", "fault")

------------------------------------------------------------------------------
(* C1 *)

EmptyRequired(r) ==
    /\ reqs[r].handler \in PostHandlers
    /\ reqs[r].body.book = <<>> \/ reqs[r].body.imprint = <<>>

\* C1 as stated: a create or update submission with an empty book or an
\* empty imprint ends with the form rendered with at least one error
\* message, and never makes a persistence call.
C1_AlwaysForm ==
    \A r \in Reqs :
        EmptyRequired(r) =>
            /\ NoPersistence(r)
            /\ Done(r) => IsErrorForm(Last(Log(r)))

\* C1, amended: a create or update submission with an empty book or an empty
\* imprint never makes a persistence call; it fetches the book list and ends
\* with the form rendered with at least one error message, unless that fetch
\* faults, in which case the fault is forwarded and nothing is rendered.
C1_FormOrFault ==
    \A r \in Reqs :
        EmptyRequired(r) =>
            /\ NoPersistence(r)
            /\ Len(reqs[r].errors) >= 1
            /\ Done(r) => FormOrFault(r)

C1_Witness ==
    \E r \in Reqs :
        /\ EmptyRequired(r)
        /\ reqs[r].body.imprint # <<>>
        /\ Done(r)
        /\ IsErrorForm(Last(Log(r)))
        /\ Last(Log(r)).arg.errors = <<"Book must be specified">>

------------------------------------------------------------------------------
(* C2 *)

WellFormedDates == {"2021-03-04"}

DuePresent(r) == reqs[r].body.due_back \notin {Undefined, ""}

\* C2 as stated: in the submit flows a due_back that is present and not a
\* well-formed ISO-8601 date gives an 'Invalid date' error, the form is
\* rendered again and nothing is persisted; a due_back omitted or empty gives
\* no due-back error and, with book and imprint non-empty, the first thing the
\* request does is the persistence call.
C2_InvalidDateForm ==
    \A r \in Reqs :
        reqs[r].handler \in PostHandlers =>
            /\ (DuePresent(r) /\ reqs[r].body.due_back \notin WellFormedDates) =>
                   /\ \E i \in DOMAIN reqs[r].errors : reqs[r].errors[i] = "Invalid date"
                   /\ NoPersistence(r)
                   /\ Done(r) => IsErrorForm(Last(Log(r)))
            /\ ~DuePresent(r) =>
                   /\ \A i \in DOMAIN reqs[r].errors : reqs[r].errors[i] # "Invalid date"
                   /\ (reqs[r].body.book # <<>> /\ reqs[r].body.imprint # <<>>) =>
                          /\ Log(r)[1].kind = "storage"
                          /\ Log(r)[1].what \in PersistOps

\* C2, amended: as stated, except that after an 'Invalid date' error the form
\* is rendered again (carrying that message) unless the book-list fetch
\* faults, in which case the fault is forwarded and nothing is rendered.
C2_InvalidDate ==
    \A r \in Reqs :
        reqs[r].handler \in PostHandlers =>
            /\ (DuePresent(r) /\ reqs[r].body.due_back \notin WellFormedDates) =>
                   /\ \E i \in DOMAIN reqs[r].errors : reqs[r].errors[i] = "Invalid date"
                   /\ NoPersistence(r)
                   /\ Done(r) =>
                        /\ FormOrFault(r)
                        /\ IsErrorForm(Last(Log(r))) =>
                             \E i \in DOMAIN Last(Log(r)).arg.errors :
                                 Last(Log(r)).arg.errors[i] = "Invalid date"
            /\ ~DuePresent(r) =>
                   /\ \A i \in DOMAIN reqs[r].errors : reqs[r].errors[i] # "Invalid date"
                   /\ (reqs[r].body.book # <<>> /\ reqs[r].body.imprint # <<>>) =>
                          /\ Log(r)[1].kind = "storage"
                          /\ Log(r)[1].what \in PersistOps

C2_Witness ==
    \E r \in Reqs :
        /\ reqs[r].handler \in PostHandlers
        /\ reqs[r].body.due_back = "tomorrow"
        /\ Done(r)
        /\ IsErrorForm(Last(Log(r)))
        /\ Last(Log(r)).arg.errors = <<"Invalid date">>

------------------------------------------------------------------------------
(* C3 *)

\* A step taken by an update submission of slot r: its handler, or one of
\* its callbacks.
UpdatePostStep(r) ==
    \/ reqs[r].pc = "idle" /\ reqs'[r].handler = "bookinstance_update_post"
    \/ /\ reqs[r].handler = "bookinstance_update_post"
       /\ reqs[r].pc # "done"
       /\ reqs'[r] # reqs[r]

\* C3: no step of an update submission (valid or not, record present or not,
\* whatever else is in flight) changes the set of identities in storage or
\* mints one, and the only record a step may modify is the one whose identity
\* is the path parameter id.
C3_NoNewIdentity ==
    [][\A r \in Reqs :
          UpdatePostStep(r) =>
              /\ DOMAIN bookinstances' = DOMAIN bookinstances
              /\ nextId' = nextId
              /\ \A k \in DOMAIN bookinstances :
                     k # reqs'[r].id => bookinstances'[k] = bookinstances[k]
              /\ reqs'[r].doc._id = reqs'[r].id]_vars

\* An update was applied to an existing record, which now holds the
\* submitted book.
C3_Witness ==
    \E r \in Reqs :
        /\ reqs[r].handler = "bookinstance_update_post"
        /\ Done(r)
        /\ Has(r, "callback", "ok", "findByIdAndUpdate")
        /\ reqs[r].id \in DOMAIN bookinstances
        /\ bookinstances[reqs[r].id].book = reqs[r].doc.book
        /\ Cardinality(DOMAIN bookinstances) = 2

------------------------------------------------------------------------------
(* C4 *)

\* A detail or update-form request whose record lookup came back null.
LookupNull(r) ==
    /\ reqs[r].handler \in {"bookinstance_detail", "bookinstance_update_get"}
    /\ Has(r, "callback", "null", "BookInstance.findById")

\* C4 as stated: such a request renders nothing, redirects nowhere, and ends
\* having forwarded exactly a 404 error.
C4_Always404 ==
    \A r \in Reqs :
        LookupNull(r) =>
            /\ Responses(r) = <<>>
            /\ Done(r) => Forwards(r) = <<CallNext("404")>>

\* C4, amended: such a request renders nothing and redirects nowhere; it ends
\* having forwarded exactly one error, the 404, unless (in the update form
\* read) the concurrent book-list fetch faults, and then that fault is the
\* one error forwarded.
C4_NotFound ==
    \A r \in Reqs :
        LookupNull(r) =>
            /\ Responses(r) = <<>>
            /\ Done(r) =>
                 Forwards(r) = IF Has(r, "callback", "fault", "Book.find")
                               THEN <<CallNext("fault")>>
                               ELSE <<CallNext("404")>>

C4_Witness ==
    \E r \in Reqs :
        /\ LookupNull(r)
        /\ reqs[r].handler = "bookinstance_update_get"
        /\ Done(r)
        /\ Last(Log(r)) = CallNext("404")

------------------------------------------------------------------------------
(* C5 *)

\* C5: a create submission that passes validation and whose save succeeds
\* adds exactly one record, under the identity minted for it and holding the
\* sanitized fields, and changes no other; it sends one redirect, to the url
\* of that identity, and only after the save has completed.
C5_CreateThenRedirect ==
    /\ [](\A r \in Reqs :
            reqs[r].handler = "bookinstance_create_post" =>
                /\ Has(r, "callback", "ok", "save") =>
                       /\ reqs[r].errors = <<>>
                       /\ Len(Log(r)) = 3
                       /\ Log(r)[1] = Storage("save", reqs[r].doc._id)
                       /\ Is(Log(r)[2], "callback", "ok")
                       /\ Is(Log(r)[3], "redirect", "redirect")
                       /\ Log(r)[3].arg = BookInstanceUrl(reqs[r].doc._id)
                /\ Responses(r) # <<>> /\ reqs[r].errors = <<>> =>
                       Has(r, "callback", "ok", "save"))
    /\ [][\A r \in Reqs :
            (At(r, "bookinstance_create_post", "save") /\ Done(r)'
               /\ \E i \in DOMAIN reqs'[r].calls :
                     Is(reqs'[r].calls[i], "callback", "ok")) =>
                /\ reqs[r].doc._id \notin DOMAIN bookinstances
                /\ DOMAIN bookinstances' = DOMAIN bookinstances \cup {reqs[r].doc._id}
                /\ bookinstances'[reqs[r].doc._id] = Fields(reqs[r].doc)
                /\ \A k \in DOMAIN bookinstances : bookinstances'[k] = bookinstances[k]]_vars

C5_Witness ==
    \E r \in Reqs :
        /\ reqs[r].handler = "bookinstance_create_post"
        /\ Done(r)
        /\ Is(Last(Log(r)), "redirect", "redirect")
        /\ Last(Log(r)).arg = BookInstanceUrl(2)
        /\ DOMAIN bookinstances = {1, 2}

------------------------------------------------------------------------------
(* C6 *)

\* A delete submission that found its record and met no storage fault.
DeletedExisting(r) ==
    /\ reqs[r].handler = "bookinstance_delete_post"
    /\ Done(r)
    /\ Has(r, "callback", "ok", "BookInstance.findById")
    /\ Has(r, "callback", "ok", "remove")

\* C6: a delete submission naming an existing record, with no storage fault,
\* removes that record and then ends with a redirect to the url of the book
\* the record referred to, sent after the removal completed.
C6_DeleteThenRedirect ==
    \A r \in Reqs :
        DeletedExisting(r) =>
            /\ reqs[r].id \notin DOMAIN bookinstances
            /\ Len(Log(r)) = 5
            /\ Is(Log(r)[4], "callback", "ok")
            /\ Is(Log(r)[5], "redirect", "redirect")
            /\ Log(r)[5].arg = BookUrl(reqs[r].doc.book)

------------------------------------------------------------------------------
(* C7 *)

\* C7: a list request whose query fails forwards the fault with next(err) and
\* renders nothing; one whose query succeeds renders 'bookinstance_list'.
C7_ListFaultForwarded ==
    \A r \in Reqs :
        (reqs[r].handler = "bookinstance_list" /\ Done(r)) =>
            IF Has(r, "callback", "fault", "BookInstance.find")
            THEN Responses(r) = <<>> /\ Forwards(r) = <<CallNext("fault")>>
            ELSE Len(Responses(r)) = 1 /\ Is(Responses(r)[1], "render", "bookinstance_list")

------------------------------------------------------------------------------
(* C8 *)

\* C8: a delete-form request whose record is absent issues exactly one
\* response action, the redirect to the list, and does not render the
\* confirmation view; one whose record is present issues exactly one, the
\* render.
C8_DeleteGetOneResponse ==
    \A r \in Reqs :
        (reqs[r].handler = "bookinstance_delete_get" /\ Done(r)) =>
            /\ Has(r, "callback", "null", "BookInstance.findById") =>
                   /\ Len(Responses(r)) = 1
                   /\ Is(Responses(r)[1], "redirect", "redirect")
            /\ Has(r, "callback", "ok", "BookInstance.findById") =>
                   /\ Len(Responses(r)) = 1
                   /\ Is(Responses(r)[1], "render", "bookinstance_delete")

------------------------------------------------------------------------------
(* C9 *)

FaultFlows == {"bookinstance_create_post", "bookinstance_update_post",
               "bookinstance_delete_post", "bookinstance_create_get",
               "bookinstance_delete_get", "bookinstance_update_get"}

\* C9: in the submit flows and the form-read flows, once a storage callback
\* has reported a fault the request forwards exactly one error, that fault,
\* in the callback that received it; after the fault it issues no render, no
\* redirect and no storage operation.
C9_FaultIsFatal ==
    \A r \in Reqs :
        (reqs[r].handler \in FaultFlows /\ Faults(r) # {}) =>
            /\ Forwards(r) = <<CallNext("fault")>>
            /\ Log(r)[FirstFault(r) + 1] = CallNext("fault")
            /\ \A j \in DOMAIN Log(r) :
                   j > FirstFault(r) => Log(r)[j].kind \notin {"render", "redirect", "storage"}

\* A delete submission whose fetch succeeded and whose remove faulted.
C9_Witness ==
    \E r \in Reqs :
        /\ reqs[r].handler = "bookinstance_delete_post"
        /\ Done(r)
        /\ Has(r, "callback", "fault", "remove")
        /\ reqs[r].id \in DOMAIN bookinstances

------------------------------------------------------------------------------
(* C10 *)

\* C10: the update-form read issues both reads before either completes, and
\* its final callback runs once: if a read faults, the first fault is
\* forwarded in that read's callback and nothing else ever follows; with no
\* fault nothing happens until both reads have completed, and then the form
\* is rendered with the record read and the book list, or a 404 is forwarded
\* when the record is null.
C10_ParallelReads ==
    \A r \in Reqs :
        reqs[r].handler = "bookinstance_update_get" =>
            LET callbacks == {i \in DOMAIN Log(r) : Log(r)[i].kind = "callback"} IN
            /\ Len(Log(r)) >= 2
            /\ Log(r)[1] = Storage("BookInstance.findById", reqs[r].id)
            /\ Log(r)[2] = Storage("Book.find", 0)
            /\ Len(Outcomes(r)) <= 1
            /\ Done(r) => Len(Outcomes(r)) = 1 /\ Cardinality(callbacks) = 2
            /\ Faults(r) # {} =>
                   /\ Outcomes(r) = <<CallNext("fault")>>
                   /\ Log(r)[FirstFault(r) + 1] = CallNext("fault")
            /\ (Faults(r) = {} /\ Cardinality(callbacks) < 2) => Outcomes(r) = <<>>
            /\ (Faults(r) = {} /\ Cardinality(callbacks) = 2) =>
                   /\ Len(Outcomes(r)) = 1
                   /\ Outcomes(r)[1] = Last(Log(r))
                   /\ IF Has(r, "callback", "null", "BookInstance.findById")
                      THEN Last(Log(r)) = CallNext("404")
                      ELSE /\ Is(Last(Log(r)), "render", "bookinstance_form")
                           /\ Last(Log(r)).arg.bookinstance._id = reqs[r].id
                           /\ Last(Log(r)).arg.book_list = BookList

\* The record read faulted first; the book list arrived afterwards.
C10_Witness ==
    \E r \in Reqs :
        /\ reqs[r].handler = "bookinstance_update_get"
        /\ Done(r)
        /\ Len(Log(r)) = 5
        /\ Is(Log(r)[3], "callback", "fault")
        /\ Log(r)[3].arg = "BookInstance.findById"
        /\ Is(Log(r)[5], "callback", "ok")

====
